---- MODULE Spec2Model ----
(***************************************************************************)
(* eibi2kiwi: conversion of the EiBi shortwave schedule (CSV) into the     *)
(* kiwiSDR DX-label CSV (eibi2kiwi.py, eibi2kiwi_online.py) and then into  *)
(* the kiwiSDR JSON form (eibi2kiwi_json.py).                              *)
(*                                                                         *)
(* A Python str is modelled as a sequence of one-character strings, so     *)
(* that indexing, split, strip, startswith and the csv quoting rules are   *)
(* computed character by character as the code computes them.              *)
(***************************************************************************)
EXTENDS Integers, Sequences, FiniteSets, TLC

VARIABLES
    variant,        \* which CSV script runs: "standalone" (eibi2kiwi.py) or "online"
    pc,             \* position of the CSV script
    raised,         \* the exception that ended the CSV script ("none": none)
    sites_wanted,   \* the mapping made of the well-formed rows of eibisites.csv read so far
    location_dict,  \* country code -> (site code -> location name)
    loc_vars,       \* the globals country_code, location_code, location_name (<<>>: unbound)
    attempt,        \* loop variable of the fetch loop
    requests,       \* number of requests.get calls made
    last_resp,      \* outcome of the latest requests.get call
    filein,         \* FILEIN on disk: "absent", "stale" (earlier run) or "fresh" (this run)
    src_rows,       \* rows of FILEIN the row loop has read so far (header excluded)
    DOW,            \* the global DOW
    outrow,         \* the global outrow
    fileout,        \* FILEOUT (kiwi.csv) on disk: NoFile or its lines
    fileout0,       \* FILEOUT as it was before the run
    jpc,            \* position of the JSON script
    kiwi_json,      \* kiwi.json on disk: NoFile or the records of its array
    json_src,       \* for each record of kiwi.json, the line of kiwi.csv it was built from
    mpc,            \* position of the mask round trip
    bin_string,     \* a weekly bin string
    dow_string,     \* its day-letter string
    mask_int,       \* the integer the JSON stage derives from the day-letter string
    rpc,            \* position of the range expansion
    range_arg,      \* the argument of expand_weekday_range
    range_result    \* the string expand_weekday_range returns

csvVars  == <<variant, pc, raised, sites_wanted, location_dict, loc_vars, attempt, requests,
              last_resp, filein, src_rows, DOW, outrow, fileout, fileout0>>
jsonVars == <<jpc, kiwi_json, json_src>>
maskVars == <<mpc, bin_string, dow_string, mask_int, rpc, range_arg, range_result>>
vars     == <<csvVars, jsonVars, maskVars>>

----------------------------------------------------------------------------
(* Bounds of the model *)

\* rows of FILEIN (after the header) read by the row loop
MaxRows == 2

----------------------------------------------------------------------------
(* Python str and list operations *)

Digits == <<"0","1","2","3","4","5","6","7","8","9">>

IsDigitChar(c) == \E i \in 1..10 : Digits[i] = c

DigitVal(c) == (CHOOSE i \in 1..10 : Digits[i] = c) - 1

\* str.isdigit(): non-empty and every character a digit
IsDigit(s) == Len(s) > 0 /\ \A i \in 1..Len(s) : IsDigitChar(s[i])

\* c in s, for a one-character c
Contains(s, c) == \E i \in 1..Len(s) : s[i] = c

StartsWith(s, p) == Len(s) >= Len(p) /\ SubSeq(s, 1, Len(p)) = p

\* the list f as a tuple, its elements computed once
List(f) == f \o <<>>

RECURSIVE IndexRange(_, _, _)
\* the positions i of lo..hi with keep[i], in increasing order
IndexRange(keep, lo, hi) ==
    IF lo > hi THEN <<>>
    ELSE IF lo = hi THEN (IF keep[lo] THEN <<lo>> ELSE <<>>)
    ELSE LET mid == (lo + hi) \div 2
         IN  IndexRange(keep, lo, mid) \o IndexRange(keep, mid + 1, hi)

\* the positions i with keep[i], in increasing order
Indices(keep) == IndexRange(keep, 1, Len(keep))

\* s[m..n], empty when the range is
Slice(s, m, n) == IF m > n THEN <<>> ELSE SubSeq(s, m, n)

\* s.split(sep), for a one-character sep: the pieces between the separators
Split(s, sep) ==
    LET at == Indices(List([i \in 1..Len(s) |-> s[i] = sep]))
        k == Len(at)
    IN  List([j \in 1..(k + 1) |->
                 Slice(s, IF j = 1 THEN 1 ELSE at[j - 1] + 1,
                          IF j = k + 1 THEN Len(s) ELSE at[j] - 1)])

RECURSIVE JoinRange(_, _, _, _)
\* sep.join(parts[lo..hi])
JoinRange(parts, sep, lo, hi) ==
    IF lo > hi THEN <<>>
    ELSE IF lo = hi THEN parts[lo]
    ELSE LET mid == (lo + hi) \div 2
         IN  JoinRange(parts, sep, lo, mid) \o sep \o JoinRange(parts, sep, mid + 1, hi)

\* sep.join(parts)
Join(parts, sep) == JoinRange(parts, sep, 1, Len(parts))

RECURSIVE LStrip(_, _)
LStrip(s, chars) ==
    IF Len(s) > 0 /\ s[1] \in chars THEN LStrip(Tail(s), chars) ELSE s

RECURSIVE RStrip(_, _)
RStrip(s, chars) ==
    IF Len(s) > 0 /\ s[Len(s)] \in chars THEN RStrip(SubSeq(s, 1, Len(s) - 1), chars) ELSE s

\* s.strip(chars)
StripChars(s, chars) == RStrip(LStrip(s, chars), chars)

Whitespace == {" ", "\t", "\n", "\r"}

\* s.strip()
Strip(s) == StripChars(s, Whitespace)

RECURSIVE RemoveChar(_, _)
\* s.replace(c, ""), for a one-character c
RemoveChar(s, c) ==
    IF Len(s) = 0 THEN <<>>
    ELSE IF s[1] = c THEN RemoveChar(Tail(s), c)
    ELSE <<s[1]>> \o RemoveChar(Tail(s), c)

RECURSIVE IntFrom(_, _, _)
IntFrom(s, i, acc) ==
    IF i > Len(s) THEN acc ELSE IntFrom(s, i + 1, acc * 10 + DigitVal(s[i]))

\* int(s), for a string of decimal digits
IntOf(s) == IntFrom(s, 1, 0)

RECURSIVE NatToStr(_)
\* str(n), for a natural number n
NatToStr(n) ==
    IF n < 10 THEN <<Digits[n + 1]>> ELSE Append(NatToStr(n \div 10), Digits[(n % 10) + 1])

----------------------------------------------------------------------------
(* float(), str(float): a frequency is held in hundredths of a kHz.  The  *)
(* model's frequencies are decimal numerals with at most two fractional   *)
(* digits, which float() and str() carry exactly.                         *)

FloatOk(s) ==
    LET p == Split(s, ".")
    IN  /\ Len(p) \in {1, 2}
        /\ IsDigit(p[1]) \/ (Len(p[1]) = 0 /\ Len(p) = 2 /\ Len(p[2]) > 0)
        /\ Len(p) = 2 => (Len(p[2]) <= 2 /\ (Len(p[2]) > 0 => IsDigit(p[2])))

\* float(s), in hundredths
FloatOf(s) ==
    LET p == Split(s, ".")
        frac == IF Len(p) = 2 THEN p[2] ELSE <<>>
    IN  IntOf(p[1]) * 100
        + (IF Len(frac) = 0 THEN 0
           ELSE IF Len(frac) = 1 THEN DigitVal(frac[1]) * 10
           ELSE IntOf(frac))

\* str(x) of a float x given in hundredths: "9400.0", "9400.5", "9400.25"
StrOfFloat(v) ==
    LET f == v % 100
    IN  NatToStr(v \div 100) \o <<".">> \o
        (IF f % 10 = 0 THEN <<Digits[(f \div 10) + 1]>>
         ELSE <<Digits[(f \div 10) + 1], Digits[(f % 10) + 1]>>)

----------------------------------------------------------------------------
(* The weekday vocabulary and the mask functions *)

Mo == <<"M","o">>
Tu == <<"T","u">>
We == <<"W","e">>
Th == <<"T","h">>
Fr == <<"F","r">>
Sa == <<"S","a">>
Su == <<"S","u">>

weekdays == <<Mo, Tu, We, Th, Fr, Sa, Su>>

IsWeekday(d) == \E i \in 1..7 : weekdays[i] = d

\* list.index: the 0-based position of a weekday abbreviation
WeekdayIndex(d) == (CHOOSE i \in 1..7 : weekdays[i] = d) - 1

\* the dict days: the bin string of weekday number i has its single 1 at position i
days(d) == List([i \in 1..7 |-> IF i = WeekdayIndex(d) + 1 THEN "1" ELSE "0"])

\* start and end of a range both known to list.index, and exactly one hyphen
RangeOk(weekday_range) ==
    LET p == Split(weekday_range, "-")
    IN  Len(p) = 2 /\ IsWeekday(p[1]) /\ IsWeekday(p[2])

\* expand_weekday_range without the else branch: the slice alone, which is
\* empty for a start that comes after the end
expand_weekday_range_slice(weekday_range) ==
    LET p == Split(weekday_range, "-")
        start_index == WeekdayIndex(p[1])
        end_index == WeekdayIndex(p[2])
    IN  Join(SubSeq(weekdays, start_index + 1, end_index + 1), <<",">>)

expand_weekday_range(weekday_range) ==
    LET p == Split(weekday_range, "-")
        start_index == WeekdayIndex(p[1])
        end_index == WeekdayIndex(p[2])
        result == IF start_index <= end_index
                  THEN SubSeq(weekdays, start_index + 1, end_index + 1)
                  ELSE SubSeq(weekdays, start_index + 1, 7) \o SubSeq(weekdays, 1, end_index + 1)
    IN  Join(result, <<",">>)

\* every comma-separated token is a key of days
WeekdaysOk(wd) ==
    LET p == Split(wd, ",") IN \A i \in 1..Len(p) : IsWeekday(p[i])

weekdays_to_binstrings(wd) ==
    LET p == Split(wd, ",") IN List([i \in 1..Len(p) |-> days(p[i])])

\* daylist[int(number) - 1]: the digit 0 indexes daylist[-1], the digits 8 and 9 raise
NumbersOk(numbers_string) ==
    \A i \in 1..Len(numbers_string) : DigitVal(numbers_string[i]) <= 7

weekdaynumbers_to_binstrings(numbers_string) ==
    LET daylist == weekdays
        weekdays_list == List([i \in 1..Len(numbers_string) |->
                                  LET index == DigitVal(numbers_string[i]) - 1
                                  IN  IF index = -1 THEN daylist[7] ELSE daylist[index + 1]])
    IN  weekdays_to_binstrings(Join(weekdays_list, <<",">>))

\* zip(*bin_strings) stops at the shortest bin string
create_weekly_binstring(bin_strings) ==
    IF Len(bin_strings) = 0 THEN <<>>
    ELSE List([k \in 1..7 |->
                  IF \E j \in 1..Len(bin_strings) : bin_strings[j][k] = "1" THEN "1" ELSE "0"])

binstring_to_decimal(bs) ==
    LET RECURSIVE Pow2(_)
        Pow2(n) == IF n = 0 THEN 1 ELSE 2 * Pow2(n - 1)
        RECURSIVE Sum(_)
        Sum(i) == IF i > Len(bs) THEN 0
                  ELSE DigitVal(bs[i]) * Pow2(Len(bs) - i) + Sum(i + 1)
    IN  Sum(1)

DayLetters == <<"M", "T", "W", "T", "F", "S", "S">>

binstring_to_dowstring(bs) ==
    List([i \in 1..Len(bs) |-> IF bs[i] = "1" THEN DayLetters[i] ELSE "_"])

RECURSIVE ParseBinary(_, _, _)
\* int(s, 2)
ParseBinary(s, i, acc) ==
    IF i > Len(s) THEN acc ELSE ParseBinary(s, i + 1, 2 * acc + (IF s[i] = "1" THEN 1 ELSE 0))

\* day_schedule_to_int with Monday read as the least significant bit
day_schedule_to_int_lsb(schedule) ==
    LET binary_representation ==
            List([i \in 1..Len(schedule) |-> IF schedule[i] # "_" THEN "1" ELSE "0"])
        RECURSIVE FromRight(_, _)
        FromRight(i, acc) ==
            IF i < 1 THEN acc
            ELSE FromRight(i - 1, 2 * acc + (IF binary_representation[i] = "1" THEN 1 ELSE 0))
    IN  FromRight(Len(schedule), 0)

\* day_schedule_to_int with the test inverted: "_" is the set bit
day_schedule_to_int_inv(schedule) ==
    LET binary_representation ==
            List([i \in 1..Len(schedule) |-> IF schedule[i] = "_" THEN "1" ELSE "0"])
    IN  ParseBinary(binary_representation, 1, 0)

day_schedule_to_int(schedule) ==
    LET binary_representation ==
            List([i \in 1..Len(schedule) |-> IF schedule[i] # "_" THEN "1" ELSE "0"])
    IN  ParseBinary(binary_representation, 1, 0)

----------------------------------------------------------------------------
(* One iteration of the row loop of the CSV stage.  A source row is the   *)
(* list csv.reader yields: khz, time, day, itu, ident, lang, target, rem. *)

Quote == "\""

Quoted(s) == <<Quote>> \o s \o <<Quote>>

\* begin, end = row[1].split("-") needs exactly two pieces
TimeOk(t) == Len(Split(t, "-")) = 2

ClampBegin(begin) == IF begin = <<"0","0","0","0">> THEN <<"0","0","0","1">> ELSE begin

ClampEnd(end) == IF end = <<"2","4","0","0">> THEN <<"2","3","5","9">> ELSE end

\* the day expression after the rewrites of the list branch
ListDay(day) ==
    LET d1 == IF day = <<"S","a","S","u">> THEN <<"S","a",",","S","u">> ELSE day
    IN  IF StartsWith(d1, <<"1",".">>) THEN Slice(d1, 3, Len(d1)) ELSE d1

\* which branch of the if/elif chain the day expression takes
DayBranch(day, v) ==
    IF IsDigit(day) THEN "digits"
    ELSE IF Contains(day, ",") \/ IsWeekday(day) \/ day = <<"S","a","S","u">> \/ StartsWith(day, <<"1",".">>)
         THEN "list"
    ELSE IF Contains(day, "-") /\ (v = "online" => day[Len(day)] # "-") THEN "range"
    ELSE "none"

\* the branch raises (IndexError, KeyError, ValueError)
DayRaises(day, v) ==
    LET b == DayBranch(day, v)
    IN  \/ b = "digits" /\ ~NumbersOk(day)
        \/ b = "list" /\ ~WeekdaysOk(ListDay(day))
        \/ b = "range" /\ ~RangeOk(day)

\* DOW after the if/elif chain; dow is its value before
DowAfterBranch(day, dow, v) ==
    LET b == DayBranch(day, v)
        r == IF b = "digits" THEN weekdaynumbers_to_binstrings(day)
             ELSE IF b = "list" THEN weekdays_to_binstrings(ListDay(day))
             ELSE weekdays_to_binstrings(expand_weekday_range(day))
    IN  IF b = "none" THEN dow
        ELSE binstring_to_dowstring(create_weekly_binstring(r))

\* the field without the test "if not DOW": the quotes are put around any DOW
DowFieldQuotedAlways(dow) == Quoted(dow)

\* if not DOW: DOW = "" else: DOW = f'"{DOW}"'
DowField(dow) == IF Len(dow) = 0 THEN <<>> ELSE Quoted(dow)

\* the iteration without the reset at its end: DOW keeps the emitted field
DowAfterRowKept(dowField) == dowField

\* DOW = "" at the end of the iteration
DowAfterRow(dowField) == <<>>

RowType(langField) ==
    LET lang == Strip(langField)
    IN  IF StartsWith(lang, <<"-">>) \/ Len(lang) = 0 THEN <<"T","4">> ELSE <<"T","3">>

LangNote(langField) ==
    LET lang == Strip(langField)
    IN  IF Len(lang) = 0 THEN <<>> ELSE <<"L","a","n","g",":"," ">> \o lang

TargetNote(targetField) ==
    LET target == Strip(targetField)
    IN  IF Len(target) = 0 THEN <<>> ELSE <<"T","a","r","g","e","t",":"," ">> \o target \o <<".">>

\* eibi2kiwi.py: the notes string
NotesStandalone(row) ==
    LET itu == row[4]
        rem == row[8]
        tail == <<"."," ">> \o TargetNote(row[7]) \o <<" ">> \o LangNote(row[6])
    IN  IF Len(rem) = 0 THEN itu \o tail ELSE itu \o <<" ","v","i","a"," ">> \o rem \o tail

\* the relay field divided at "/" instead
RelaySplitSlash(rem) == Split(rem, "/")

\* stn = row[7].split('-')
RelaySplit(rem) == Split(rem, "-")

\* eibi2kiwi_online.py: the country code after the relay parse
RelayItu(row) ==
    IF Contains(row[8], "/")
    THEN LET stn == RelaySplit(row[8]) IN Slice(stn[1], 2, Len(stn[1]))
    ELSE row[4]

\* eibi2kiwi_online.py: the site code after the relay parse
RelayTxsite(row) ==
    IF Contains(row[8], "/")
    THEN LET stn == RelaySplit(row[8]) IN IF Len(stn) >= 2 THEN stn[2] ELSE <<>>
    ELSE row[8]

\* location_dict.get(itu, {}).get(txsite) is not None
HasLongName(ld, itu, txsite) == itu \in DOMAIN ld /\ txsite \in DOMAIN ld[itu]

\* eibi2kiwi_online.py: the notes string for a country code and a site code
NotesFor(row, ld, itu, txsite) ==
    LET tail == <<"."," ">> \o TargetNote(row[7]) \o <<" ">> \o LangNote(row[6])
    IN  IF HasLongName(ld, itu, txsite)
        THEN itu \o <<" ">> \o Strip(ld[itu][txsite]) \o tail
        ELSE itu \o tail

\* eibi2kiwi_online.py: the notes string of a row
NotesOnline(row, ld) == NotesFor(row, ld, RelayItu(row), RelayTxsite(row))

\* the iteration raises: a field is missing, the frequency is no number, the
\* time has not exactly one hyphen, or the day branch raises
RowRaises(row, v) ==
    \/ Len(row) < 8
    \/ ~FloatOk(row[1])
    \/ ~TimeOk(row[2])
    \/ DayRaises(row[3], v)

\* the list appended to outrow; dow is DOW at the start of the iteration
RowRecord(row, dow, v, ld) ==
    LET khz == FloatOf(row[1])
        t == Split(row[2], "-")
        notes == IF v = "online" THEN NotesOnline(row, ld) ELSE NotesStandalone(row)
    IN  << StrOfFloat(khz),
           Quoted(<<"Q","A","M">>),
           Quoted(row[5]),
           Quoted(Strip(notes)),
           <<>>,
           Quoted(RowType(row[6])),
           <<>>, <<>>, <<>>,
           DowField(DowAfterBranch(row[3], dow, v)),
           ClampBegin(t[1]),
           ClampEnd(t[2]) >>

RECURSIVE InsertByFreq(_, _)
\* rec placed after every record of the sorted list whose frequency is not larger
InsertByFreq(sorted, rec) ==
    IF Len(sorted) = 0 THEN <<rec>>
    ELSE IF FloatOf(sorted[Len(sorted)][1]) <= FloatOf(rec[1]) THEN Append(sorted, rec)
    ELSE Append(InsertByFreq(SubSeq(sorted, 1, Len(sorted) - 1), rec), sorted[Len(sorted)])

RECURSIVE SortByFreq(_)
\* outrow.sort(key=lambda x: float(x[0])): a stable sort
SortByFreq(rows) ==
    IF Len(rows) = 0 THEN <<>>
    ELSE InsertByFreq(SortByFreq(SubSeq(rows, 1, Len(rows) - 1)), rows[Len(rows)])

\* the lines written to FILEOUT, each without its newline
OutLines(rows) == List([i \in 1..Len(rows) |-> Join(rows[i], <<";">>)])

\* a file that does not exist
NoFile == << <<"no such file">> >>

----------------------------------------------------------------------------
(* The JSON stage: csv.reader, percent_encode, csv_to_json *)

\* csv.reader (delimiter ";", quotechar '"', doublequote, not strict) reads a line
\* field by field.  A field that starts with a quote is read as quoted up to its
\* closing quote: the first quote that is not paired with a quote next to it.
\* Inside, the first quote of each pair is dropped.  What follows the closing
\* quote, and a field that starts otherwise, is taken as it is up to the next
\* delimiter.

\* the number of quotes in line[lo..p]
QuotesIn(line, lo, p) == Cardinality({x \in lo..p : line[x] = Quote})

\* line[q] closes the quoted part opened at lo
CsvCloses(line, lo, q) ==
    /\ line[q] = Quote
    /\ QuotesIn(line, lo + 1, q) % 2 = 1
    /\ q = Len(line) \/ line[q + 1] # Quote

\* the position of the quote closing the quoted part opened at lo (Len + 1: none)
CsvCloser(line, lo) ==
    CHOOSE q \in (lo + 1)..(Len(line) + 1) :
        /\ q = Len(line) + 1 \/ CsvCloses(line, lo, q)
        /\ \A j \in (lo + 1)..(q - 1) : ~CsvCloses(line, lo, j)

\* the position of the first delimiter from position lo on (Len + 1: none)
CsvDelimiter(line, lo) ==
    CHOOSE i \in lo..(Len(line) + 1) :
        /\ i = Len(line) + 1 \/ line[i] = ";"
        /\ \A j \in lo..(i - 1) : line[j] # ";"

\* the position of the delimiter ending the field that starts at lo (Len + 1: none)
CsvFieldEnd(line, lo) ==
    IF line[lo] = Quote
    THEN LET q == CsvCloser(line, lo)
         IN  IF q > Len(line) THEN q ELSE CsvDelimiter(line, q + 1)
    ELSE CsvDelimiter(line, lo)

\* the field that starts at lo and ends before hi
CsvField(line, lo, hi) ==
    IF line[lo] # Quote THEN Slice(line, lo, hi - 1)
    ELSE LET q == CsvCloser(line, lo)
             inner == Slice(line, lo + 1, q - 1)
             kept == Indices(List([x \in 1..Len(inner) |->
                                      inner[x] = Quote => QuotesIn(inner, 1, x) % 2 = 0]))
         IN  List([j \in 1..Len(kept) |-> inner[kept[j]]]) \o Slice(line, q + 1, hi - 1)

RECURSIVE CsvFields(_, _)
\* the fields of the line from position lo on, where a field starts
CsvFields(line, lo) ==
    IF lo > Len(line) THEN << <<>> >>
    ELSE LET hi == CsvFieldEnd(line, lo)
         IN  IF hi > Len(line) THEN <<CsvField(line, lo, hi)>>
             ELSE <<CsvField(line, lo, hi)>> \o CsvFields(line, hi + 1)

\* the row csv.reader yields for a line; an empty line yields []
CsvParseLine(line) == IF Len(line) = 0 THEN <<>> ELSE CsvFields(line, 1)

Letters == {"A","B","C","D","E","F","G","H","I","J","K","L","M",
            "N","O","P","Q","R","S","T","U","V","W","X","Y","Z",
            "a","b","c","d","e","f","g","h","i","j","k","l","m",
            "n","o","p","q","r","s","t","u","v","w","x","y","z"}

\* left as they are: the unreserved characters, the safe space, and the
\* characters whose escapes encode_preserve_case turns back
EncodeKept(c) ==
    \/ c \in Letters
    \/ IsDigitChar(c)
    \/ c \in {"_", ".", "-", "~", " "}
    \/ c \in {":", "<", ">", ",", "(", ")", "&"}

\* the escape of the other characters of the model's alphabet, hex digits lower-cased
EncodeChar(c) ==
    IF EncodeKept(c) THEN <<c>>
    ELSE CASE c = "/" -> <<"%","2","f">>
           [] c = Quote -> <<"%","2","2">>
           [] c = ";" -> <<"%","3","b">>
           [] c = "'" -> <<"%","2","7">>

RECURSIVE EncodeRange(_, _, _)
\* the encoding of text[lo..hi]
EncodeRange(text, lo, hi) ==
    IF lo > hi THEN <<>>
    ELSE IF lo = hi THEN EncodeChar(text[lo])
    ELSE LET mid == (lo + hi) \div 2
         IN  EncodeRange(text, lo, mid) \o EncodeRange(text, mid + 1, hi)

encode_preserve_case(text) == EncodeRange(text, 1, Len(text))

\* the metadata without the begin and end offsets
JsonMetadataNoOffsets(row) ==
    LET keys == {"T3"} \cup (IF Len(Strip(row[10])) > 0 THEN {"d0"} ELSE {})
    IN  [k \in keys |-> IF k = "T3" THEN 1 ELSE day_schedule_to_int(row[10])]

\* the dict metadata of one row (row[n] of the code is row[n + 1] here)
JsonMetadata(row) ==
    LET hasB == Len(Strip(row[11])) > 0
        hasE == Len(Strip(row[12])) > 0
        hasD == Len(Strip(row[10])) > 0
        keys == {"T3"} \cup (IF hasB \/ hasE THEN {"b0", "e0"} ELSE {})
                       \cup (IF hasD THEN {"d0"} ELSE {})
    IN  [k \in keys |->
            IF k = "T3" THEN 1
            ELSE IF k = "b0"
                 THEN (IF hasB THEN IntOf(Strip(RemoveChar(row[11], "'"))) ELSE 0)
            ELSE IF k = "e0"
                 THEN (IF hasE THEN IntOf(Strip(RemoveChar(row[12], "'"))) ELSE 0)
            ELSE day_schedule_to_int(row[10])]

\* the iteration of csv_to_json raises: a field is missing, or float() or int() fails
JsonRowRaises(row) ==
    \/ Len(row) < 12
    \/ ~FloatOk(row[1])
    \/ Len(Strip(row[11])) > 0 /\ ~IsDigit(Strip(RemoveChar(row[11], "'")))
    \/ Len(Strip(row[12])) > 0 /\ ~IsDigit(Strip(RemoveChar(row[12], "'")))

\* the 5-element list appended to result; round(float(row[0]), 2) in hundredths
JsonRecord(row) ==
    << FloatOf(row[1]),
       StripChars(row[2], {Quote}),
       encode_preserve_case(StripChars(row[3], {Quote})),
       encode_preserve_case(StripChars(row[4], {Quote})),
       JsonMetadata(row) >>

RECURSIVE JsonLinesFrom(_, _)
JsonLinesFrom(lines, i) ==
    IF i > Len(lines) THEN <<>>
    ELSE IF Len(CsvParseLine(lines[i])) > 0 THEN <<i>> \o JsonLinesFrom(lines, i + 1)
    ELSE JsonLinesFrom(lines, i + 1)

\* the numbers of the lines the loop of csv_to_json builds records from:
\* next(reader, None) has taken line 1, and "if row" passes over the empty ones
JsonLines(lines) == JsonLinesFrom(lines, 2)

----------------------------------------------------------------------------
(* The inputs the environment supplies *)

\* rows of eibisites.csv: two well-formed rows and one with two fields
LocRows == { <<<<"U","S","A">>, <<"g">>, <<"G","r","e","e","n","v","i","l","l","e"," ">>>>,
             <<<<"D">>, <<"w">>, <<"W","e","r","t","a","c","h","t","a","l">>>>,
             <<<<"U","S","A">>, <<"g">>>> }

\* the row of the end-to-end example: day 1345, 0600-1800, language E
RowDigits == <<<<"9","4","0","0",".","5">>, <<"0","6","0","0","-","1","8","0","0">>, <<"1","3","4","5">>, <<"D">>, <<"D","W">>, <<"E">>, <<>>, <<>>>>
\* a wrapping range, both clamps, a language starting with "-", a relay with "/"
RowRange == <<<<"1","5","0","7","0">>, <<"0","0","0","0","-","2","4","0","0">>, <<"S","a","-","T","u">>, <<"G">>, <<"V","O","A">>, <<"-","T","S">>, <<"E","u">>, <<"/","U","S","A","-","g">>>>
\* a day expression none of the three branches takes, and a bare site code
RowNoDay == <<<<"9","4","0","0">>, <<"2","2","0","0","-","2","3","0","0">>, <<"i","r","r">>, <<"D">>, <<"B","B","C">>, <<>>, <<>>, <<"w">>>>
\* a list with the "1." prefix, and a relay with "/" and no hyphen
RowList == <<<<"7","3","0","0">>, <<"0","3","0","0","-","0","4","0","0">>, <<"1",".","M","o",",","W","e">>, <<"F">>, <<"R","F","I">>, <<"F">>, <<"A","f">>, <<"a","/","b">>>>
\* a range with a trailing hyphen
RowTrail == <<<<"6","0","0","0">>, <<"0","1","0","0","-","0","2","0","0">>, <<"M","o","-">>, <<"G">>, <<"B","B","C">>, <<"E">>, <<>>, <<>>>>
\* a range whose start is no weekday
RowBadRange == <<<<"6","1","0","0">>, <<"0","1","0","0","-","0","2","0","0">>, <<"X","x","-","M","o">>, <<"G">>, <<"B","B","C">>, <<"E">>, <<>>, <<>>>>
\* a frequency that is no number
RowBadFreq == <<<<"a","b","c">>, <<"0","1","0","0","-","0","2","0","0">>, <<"M","o">>, <<"G">>, <<"B","B","C">>, <<"E">>, <<>>, <<>>>>
\* a time without a hyphen
RowBadTime == <<<<"7","2","0","0">>, <<"0","1","0","0">>, <<"S","a","S","u">>, <<"G">>, <<"B","B","C">>, <<"E">>, <<>>, <<>>>>

SourceRows == {RowDigits, RowRange, RowNoDay, RowList, RowTrail,
               RowBadRange, RowBadFreq, RowBadTime}

\* outcomes of requests.get followed by raise_for_status
Responses == {"ok", "404", "http_error", "request_exception"}

\* kiwi.csv as an earlier run left it
OldKiwi == << <<"7","2","0","0",".","0",";","\"","Q","A","M","\"",";","\"","O","L","D","\"",";","\"","G",".","\"",";",";","\"","T","4","\"",";",";",";",";",";","0","1","0","0",";","0","2","0","0">>,
              <<"9","5","0","0",".","0",";","\"","Q","A","M","\"",";","\"","O","L","D","\"",";","\"","G","."," ","L","a","n","g",":"," ","E","\"",";",";","\"","T","3","\"",";",";",";",";","\"","M","_","_","_","_","_","_","\"",";","0","1","0","0",";","0","2","0","0">> >>

\* all weekly bin strings
BinStrings == [1..7 -> {"0", "1"}]

\* the tokens a range is made of: the seven abbreviations and one that is none
RangeTokens == {weekdays[i] : i \in 1..7} \cup {<<"X","x">>}

\* all ranges "start-end" over the tokens
RangeInputs == {s \o <<"-">> \o e : s \in RangeTokens, e \in RangeTokens}

----------------------------------------------------------------------------
(* The location loader of eibi2kiwi_online.py *)

EmptyDict == [k \in {} |-> <<>>]

\* if country_code not in location_dict: location_dict[country_code] = {}
\* location_dict[country_code][location_code] = location_name
SetLocation(ld, cc, lc, ln) ==
    LET inner == IF cc \in DOMAIN ld THEN ld[cc] ELSE EmptyDict
        inner2 == [k \in DOMAIN inner \cup {lc} |-> IF k = lc THEN ln ELSE inner[k]]
    IN  [k \in DOMAIN ld \cup {cc} |-> IF k = cc THEN inner2 ELSE ld[k]]

\* one iteration of the loader loop, for a file of any length: a row without
\* exactly three fields leaves country_code, location_code and location_name as
\* they were, and the lines after the try statement run all the same; they raise
\* NameError when the names are not bound yet
LoadRow(row) ==
    /\ pc = "load"
    /\ IF Len(row) = 3
       THEN /\ loc_vars' = row
            /\ location_dict' = SetLocation(location_dict, row[1], row[2], row[3])
            /\ sites_wanted' = SetLocation(sites_wanted, row[1], row[2], row[3])
            /\ UNCHANGED <<pc, raised>>
       ELSE IF Len(loc_vars) = 0
       THEN /\ pc' = "crashed"
            /\ raised' = "NameError"
            /\ UNCHANGED <<loc_vars, location_dict, sites_wanted>>
       ELSE /\ location_dict' =
                   SetLocation(location_dict, loc_vars[1], loc_vars[2], loc_vars[3])
            /\ UNCHANGED <<loc_vars, pc, raised, sites_wanted>>
    /\ UNCHANGED <<variant, attempt, requests, last_resp, filein, src_rows, DOW, outrow,
                   fileout, fileout0>>
    /\ UNCHANGED <<jsonVars, maskVars>>

\* the end of eibisites.csv
LoadEnd ==
    /\ pc = "load"
    /\ pc' = "fetch"
    /\ UNCHANGED <<variant, raised, sites_wanted, location_dict, loc_vars, attempt, requests,
                   last_resp, filein, src_rows, DOW, outrow, fileout, fileout0>>
    /\ UNCHANGED <<jsonVars, maskVars>>

----------------------------------------------------------------------------
(* The fetch loop of eibi2kiwi_online.py *)

max_attempts == 3

\* a loop in which a 404 response is retried like any other failure
FetchBreaksOkOnly(resp) == resp = "ok"

\* the iteration ends in a break: after a success, and after a 404 response
FetchBreaks(resp) == resp \in {"ok", "404"}

\* one iteration of "for attempt in range(max_attempts)"; attempt holds the
\* number of iterations that ended without a break
FetchAttempt(resp) ==
    /\ pc = "fetch"
    /\ attempt < max_attempts
    /\ requests' = requests + 1
    /\ last_resp' = resp
    /\ filein' = IF resp = "ok" THEN "fresh" ELSE filein
    /\ IF FetchBreaks(resp)
       THEN /\ pc' = "check"
            /\ UNCHANGED attempt
       ELSE /\ attempt' = attempt + 1
            /\ pc' = IF attempt + 1 < max_attempts THEN "fetch" ELSE "check"
    /\ UNCHANGED <<variant, raised, sites_wanted, location_dict, loc_vars, src_rows, DOW,
                   outrow, fileout, fileout0>>
    /\ UNCHANGED <<jsonVars, maskVars>>

\* if not Path(FILEIN).is_file(): sys.exit()
CheckFile ==
    /\ pc = "check"
    /\ pc' = IF filein = "absent" THEN "exited" ELSE "open"
    /\ UNCHANGED <<variant, raised, sites_wanted, location_dict, loc_vars, attempt, requests,
                   last_resp, filein, src_rows, DOW, outrow, fileout, fileout0>>
    /\ UNCHANGED <<jsonVars, maskVars>>

----------------------------------------------------------------------------
(* The row loop and the output of the CSV stage *)

\* open(FILEIN) and next(reader): FileNotFoundError when FILEIN is absent
\* (eibi2kiwi.py), StopIteration when it holds no line
OpenInput(empty) ==
    /\ pc = "open"
    /\ pc' = IF filein = "absent" \/ empty THEN "crashed" ELSE "rows"
    /\ raised' = IF filein = "absent" THEN "FileNotFoundError"
                 ELSE IF empty THEN "StopIteration" ELSE raised
    /\ UNCHANGED <<variant, sites_wanted, location_dict, loc_vars, attempt, requests,
                   last_resp, filein, src_rows, DOW, outrow, fileout, fileout0>>
    /\ UNCHANGED <<jsonVars, maskVars>>

\* a loop in which the error is caught and the next row is read
PcAfterRowErrorCaught == "rows"

\* an exception raised in the loop body is not caught: the script ends there
PcAfterRowError == "crashed"

\* one iteration of "for row in reader"
ProcessRow(row) ==
    /\ pc = "rows"
    /\ Len(src_rows) < MaxRows
    /\ src_rows' = Append(src_rows, row)
    /\ IF RowRaises(row, variant)
       THEN /\ pc' = PcAfterRowError
            /\ raised' = "RowError"
            /\ UNCHANGED <<DOW, outrow>>
       ELSE LET rec == RowRecord(row, DOW, variant, location_dict)
            IN  /\ outrow' = Append(outrow, rec)
                /\ DOW' = DowAfterRow(rec[10])
                /\ UNCHANGED <<pc, raised>>
    /\ UNCHANGED <<variant, sites_wanted, location_dict, loc_vars, attempt, requests,
                   last_resp, filein, fileout, fileout0>>
    /\ UNCHANGED <<jsonVars, maskVars>>

\* the end of FILEIN: outrow is sorted and FILEOUT is written
WriteOutput ==
    /\ pc = "rows"
    /\ outrow' = SortByFreq(outrow)
    /\ fileout' = OutLines(outrow')
    /\ pc' = "done"
    /\ UNCHANGED <<variant, raised, sites_wanted, location_dict, loc_vars, attempt, requests,
                   last_resp, filein, src_rows, DOW, fileout0>>
    /\ UNCHANGED <<jsonVars, maskVars>>

----------------------------------------------------------------------------
(* eibi2kiwi_json.py, run once the CSV script has ended *)

csv_to_json ==
    /\ pc \in {"done", "crashed", "exited"}
    /\ jpc = "idle"
    /\ IF fileout = NoFile
       THEN /\ jpc' = "crashed"
            /\ UNCHANGED <<kiwi_json, json_src>>
       ELSE LET at == JsonLines(fileout)
                rows == List([j \in 1..Len(at) |-> CsvParseLine(fileout[at[j]])])
            IN  IF \E j \in 1..Len(rows) : JsonRowRaises(rows[j])
                THEN /\ jpc' = "crashed"
                     /\ UNCHANGED <<kiwi_json, json_src>>
                ELSE /\ kiwi_json' = List([j \in 1..Len(rows) |-> JsonRecord(rows[j])])
                     /\ json_src' = at
                     /\ jpc' = "done"
    /\ UNCHANGED <<csvVars, maskVars>>

----------------------------------------------------------------------------
(* The mask round trip: binstring_to_dowstring, then day_schedule_to_int *)

ApplyDowstring ==
    /\ mpc = "start"
    /\ dow_string' = binstring_to_dowstring(bin_string)
    /\ mpc' = "letters"
    /\ UNCHANGED <<bin_string, mask_int, rpc, range_arg, range_result>>
    /\ UNCHANGED <<csvVars, jsonVars>>

ApplyScheduleToInt ==
    /\ mpc = "letters"
    /\ mask_int' = day_schedule_to_int(dow_string)
    /\ mpc' = "int"
    /\ UNCHANGED <<bin_string, dow_string, rpc, range_arg, range_result>>
    /\ UNCHANGED <<csvVars, jsonVars>>

\* expand_weekday_range called with a range: list.index raises ValueError for a
\* start or an end that is no weekday abbreviation
ApplyExpandRange ==
    /\ rpc = "start"
    /\ IF RangeOk(range_arg)
       THEN /\ range_result' = expand_weekday_range(range_arg)
            /\ rpc' = "returned"
       ELSE /\ rpc' = "raised"
            /\ UNCHANGED range_result
    /\ UNCHANGED <<mpc, bin_string, dow_string, mask_int, range_arg>>
    /\ UNCHANGED <<csvVars, jsonVars>>

----------------------------------------------------------------------------
(* Specifications *)

InitCommon ==
    /\ raised = "none"
    /\ sites_wanted = EmptyDict
    /\ location_dict = EmptyDict
    /\ loc_vars = <<>>
    /\ attempt = 0
    /\ requests = 0
    /\ last_resp = "none"
    /\ src_rows = <<>>
    /\ DOW = <<>>
    /\ outrow = <<>>
    /\ jpc = "idle"
    /\ kiwi_json = NoFile
    /\ json_src = <<>>
    /\ dow_string = <<>>
    /\ mask_int = 0
    /\ range_result = <<>>

\* the two CSV scripts, each followed by the JSON script
Init ==
    /\ InitCommon
    /\ variant \in {"standalone", "online"}
    /\ pc = IF variant = "online" THEN "load" ELSE "open"
    /\ filein \in {"absent", "stale"}
    /\ fileout0 \in {NoFile, OldKiwi}
    /\ fileout = fileout0
    /\ mpc = "off"
    /\ bin_string = <<>>
    /\ rpc = "off"
    /\ range_arg = <<>>

Next ==
    \/ \E row \in LocRows : LoadRow(row)
    \/ LoadEnd
    \/ \E resp \in Responses : FetchAttempt(resp)
    \/ CheckFile
    \/ \E empty \in BOOLEAN : OpenInput(empty)
    \/ \E row \in SourceRows : ProcessRow(row)
    \/ WriteOutput
    \/ csv_to_json

Spec == Init /\ [][Next]_vars

\* the fetch loop keeps running: requests.get returns or times out after 3 s,
\* sleep(3) returns, and the statement after the loop is reached
FairSpec ==
    /\ Spec
    /\ WF_vars(\E resp \in Responses : FetchAttempt(resp))
    /\ WF_vars(CheckFile)

\* the mask functions applied to each of the 128 weekly bin strings
MaskInit ==
    /\ InitCommon
    /\ variant = "standalone"
    /\ pc = "off"
    /\ filein = "absent"
    /\ fileout0 = NoFile
    /\ fileout = NoFile
    /\ mpc = "start"
    /\ bin_string \in BinStrings
    /\ rpc = "off"
    /\ range_arg = <<>>

MaskNext == ApplyDowstring \/ ApplyScheduleToInt

MaskSpec == MaskInit /\ [][MaskNext]_vars

\* expand_weekday_range applied to each range "start-end" of RangeInputs
RangeInit ==
    /\ InitCommon
    /\ variant = "standalone"
    /\ pc = "off"
    /\ filein = "absent"
    /\ fileout0 = NoFile
    /\ fileout = NoFile
    /\ mpc = "off"
    /\ bin_string = <<>>
    /\ rpc = "start"
    /\ range_arg \in RangeInputs

RangeNext == ApplyExpandRange

RangeSpec == RangeInit /\ [][RangeNext]_vars

----------------------------------------------------------------------------
(* Properties of the weekday mask functions *)

\* C1: for each of the 128 seven-character strings of 0 and 1, the day-letter
\* string made by binstring_to_dowstring is turned by day_schedule_to_int into
\* the value of the original string read as binary, Monday the highest bit.
MaskRoundTrip ==
    mpc = "int" =>
        LET weight == <<64, 32, 16, 8, 4, 2, 1>>
            RECURSIVE Value(_)
            Value(i) == IF i > 7 THEN 0
                        ELSE (IF bin_string[i] = "1" THEN weight[i] ELSE 0) + Value(i + 1)
        IN  /\ Len(dow_string) = 7
            /\ mask_int = Value(1)
            /\ mask_int = binstring_to_decimal(bin_string)

\* C1: Monday, Wednesday, Thursday and Saturday went through both functions
MaskRoundTripReached ==
    /\ mpc = "int"
    /\ bin_string = <<"1","0","1","1","0","1","0">>
    /\ dow_string = <<"M","_","W","T","_","S","_">>
    /\ mask_int = 90

----------------------------------------------------------------------------
(* Properties of the row loop *)

\* C2 as stated: a row whose day expression no branch recognises, read after a
\* row that emitted a non-empty day-letter field, emits that previous field.
DowCarriedOver ==
    pc = "rows" =>
        \A i \in 2..Len(outrow) :
            (DayBranch(src_rows[i][3], variant) = "none" /\ Len(outrow[i - 1][10]) > 0)
                => outrow[i][10] = outrow[i - 1][10]

\* C2: a row whose day expression no branch recognises, read after a row that
\* emitted a non-empty day-letter field, emits an empty day-letter field: DOW is
\* set to "" at the end of every iteration, and nothing is carried over.
DowNotCarriedOver ==
    /\ pc = "rows" =>
          \A i \in 2..Len(outrow) :
              (DayBranch(src_rows[i][3], variant) = "none" /\ Len(outrow[i - 1][10]) > 0)
                  => outrow[i][10] = <<>>
    /\ pc \in {"open", "rows"} => DOW = <<>>

\* C2: an unrecognised day expression was read right after a row with day letters
DowNotCarriedOverReached ==
    /\ pc = "rows"
    /\ Len(outrow) = 2
    /\ DayBranch(src_rows[2][3], variant) = "none"
    /\ outrow[1][10] = Quoted(<<"M","_","W","T","F","_","_">>)
    /\ outrow[2][10] = <<>>

\* C4 as stated: the source row with day 1345 and time 0600-1800 gives the
\* record with "M_WTF__", 0600, 1800 and "T3", and the JSON record built from it
\* has the metadata {"T3": 1, "d0": 90} and nothing else.
ExampleRowNoOffsets ==
    /\ pc = "rows" =>
          \A i \in 1..Len(outrow) :
              (src_rows[i][3] = <<"1","3","4","5">> /\ src_rows[i][2] = <<"0","6","0","0","-","1","8","0","0">>
                                        /\ src_rows[i][6] = <<"E">>)
                  => /\ outrow[i][10] = Quoted(<<"M","_","W","T","F","_","_">>)
                     /\ outrow[i][11] = <<"0","6","0","0">>
                     /\ outrow[i][12] = <<"1","8","0","0">>
                     /\ outrow[i][6] = Quoted(<<"T","3">>)
    /\ (pc = "done" /\ jpc = "done") =>
          \A j \in 1..Len(kiwi_json) :
              LET rec == outrow[json_src[j]]
              IN  (rec[10] = Quoted(<<"M","_","W","T","F","_","_">>) /\ rec[11] = <<"0","6","0","0">> /\ rec[12] = <<"1","8","0","0">>)
                      => kiwi_json[j][5] = [k \in {"T3", "d0"} |-> IF k = "T3" THEN 1 ELSE 90]

\* C4: the source row with day 1345 and time 0600-1800 gives the record with
\* "M_WTF__", 0600, 1800 and "T3", and every JSON record built from that record
\* has the metadata {"T3": 1, "b0": 600, "e0": 1800, "d0": 92}: the begin and end
\* fields are not empty, so both offsets are stored, and the letters "M_WTF__"
\* read as the binary number 1011100.
ExampleRowMetadata ==
    /\ pc = "rows" =>
          \A i \in 1..Len(outrow) :
              (src_rows[i][3] = <<"1","3","4","5">> /\ src_rows[i][2] = <<"0","6","0","0","-","1","8","0","0">>
                                        /\ src_rows[i][6] = <<"E">>)
                  => /\ outrow[i][10] = Quoted(<<"M","_","W","T","F","_","_">>)
                     /\ outrow[i][11] = <<"0","6","0","0">>
                     /\ outrow[i][12] = <<"1","8","0","0">>
                     /\ outrow[i][6] = Quoted(<<"T","3">>)
    /\ (pc = "done" /\ jpc = "done") =>
          \A j \in 1..Len(kiwi_json) :
              LET rec == outrow[json_src[j]]
              IN  (rec[10] = Quoted(<<"M","_","W","T","F","_","_">>) /\ rec[11] = <<"0","6","0","0">> /\ rec[12] = <<"1","8","0","0">>)
                      => /\ DOMAIN kiwi_json[j][5] = {"T3", "b0", "e0", "d0"}
                         /\ kiwi_json[j][5]["T3"] = 1
                         /\ kiwi_json[j][5]["b0"] = 600
                         /\ kiwi_json[j][5]["e0"] = 1800
                         /\ kiwi_json[j][5]["d0"] = 92

\* C4: the example row went through both stages
ExampleRowMetadataReached ==
    /\ pc = "done"
    /\ jpc = "done"
    /\ \E i \in 1..Len(src_rows) : src_rows[i] = RowDigits
    /\ \E j \in 1..Len(kiwi_json) :
           /\ outrow[json_src[j]][10] = Quoted(<<"M","_","W","T","F","_","_">>)
           /\ outrow[json_src[j]][11] = <<"0","6","0","0">>
           /\ outrow[json_src[j]][12] = <<"1","8","0","0">>
           /\ "b0" \in DOMAIN kiwi_json[j][5]

\* C5 as stated: the day-letter string "M_WTF__" is converted to 90 (binary
\* 1011010), and the JSON stage stores that number under the key d0.
LettersStoredAs90 ==
    jpc = "done" =>
        \A j \in 1..Len(kiwi_json) :
            CsvParseLine(fileout[json_src[j]])[10] = <<"M","_","W","T","F","_","_">>
                => /\ day_schedule_to_int(<<"M","_","W","T","F","_","_">>) = 90
                   /\ "d0" \in DOMAIN kiwi_json[j][5]
                   /\ kiwi_json[j][5]["d0"] = 90

\* C5: the day-letter string "M_WTF__", read as a binary number with Monday the
\* highest bit and a 1 at every position that is not "_", is converted to 92
\* (binary 1011100), and the JSON stage stores that number under the key d0 of
\* the record's metadata.
LettersStoredAsMask ==
    jpc = "done" =>
        \A j \in 1..Len(kiwi_json) :
            CsvParseLine(fileout[json_src[j]])[10] = <<"M","_","W","T","F","_","_">>
                => /\ day_schedule_to_int(<<"M","_","W","T","F","_","_">>) = 92
                   /\ "d0" \in DOMAIN kiwi_json[j][5]
                   /\ kiwi_json[j][5]["d0"] = 92

\* C5: a line of kiwi.csv with the day letters "M_WTF__" became a JSON record
LettersStoredAsMaskReached ==
    /\ jpc = "done"
    /\ \E j \in 1..Len(kiwi_json) :
           /\ Split(fileout[json_src[j]], ";")[10] = Quoted(<<"M","_","W","T","F","_","_">>)
           /\ kiwi_json[j][5]["d0"] = 92

\* C8: the CSV stage writes all or nothing: kiwi.csv changes in one step only,
\* after the last source row, when no row has raised, and it then holds every
\* record in ascending order of frequency; a row that raises ends the run with
\* kiwi.csv as it was before the run.
AllOrNothing ==
    /\ [](raised = "RowError" => fileout = fileout0)
    /\ []((pc \in {"open", "rows"}) => fileout = fileout0)
    /\ [][fileout' # fileout =>
             /\ pc = "rows" /\ pc' = "done"
             /\ raised = "none"
             /\ Len(outrow') = Len(src_rows)
             /\ \A i \in 1..(Len(outrow') - 1) :
                    FloatOf(outrow'[i][1]) <= FloatOf(outrow'[i + 1][1])
             /\ fileout' = OutLines(outrow')]_vars

\* C8: a row raised after another row had been converted
AllOrNothingReached ==
    /\ raised = "RowError"
    /\ pc = "crashed"
    /\ Len(outrow) >= 1
    /\ Len(src_rows) = Len(outrow) + 1
    /\ fileout = fileout0

----------------------------------------------------------------------------
(* Properties of the JSON stage *)

\* C3 as stated: the JSON stage emits one record for every non-empty row of
\* kiwi.csv, the first line of the file included.
JsonOneRecordPerRow ==
    jpc = "done" =>
        /\ json_src = JsonLinesFrom(fileout, 1)
        /\ Len(kiwi_json) = Len(JsonLinesFrom(fileout, 1))

----------------------------------------------------------------------------
(* Properties of eibi2kiwi_online.py *)

\* C6 as stated: when the fetch has not succeeded, the run processes no row and
\* leaves kiwi.csv unwritten, also when a schedule file of an earlier run is
\* at the target path.
FailedFetchStops ==
    (variant = "online" /\ requests > 0 /\ pc # "fetch" /\ last_resp # "ok")
        => /\ src_rows = <<>>
           /\ fileout = fileout0
           /\ pc \in {"check", "exited"}

\* C7 as stated: a row of the location file without exactly three fields is
\* skipped, also when it is the first row: loading goes on and the mapping
\* holds the well-formed rows, nothing else.
MalformedLocationSkipped ==
    /\ raised # "NameError"
    /\ location_dict = sites_wanted

\* C9: the fetch loop makes at most three requests; a request is made only while
\* fewer than three were made and none was answered with success or 404; after
\* any other failure the loop goes on exactly when fewer than three requests
\* were made; and the loop always ends.
FetchLoopBounded ==
    /\ [](requests <= max_attempts)
    /\ [][requests' # requests =>
             /\ requests' = requests + 1
             /\ requests < max_attempts
             /\ last_resp \notin {"ok", "404"}
             /\ pc = "fetch"]_vars
    /\ [][requests' # requests =>
             IF last_resp' \in {"ok", "404"}
             THEN pc' # "fetch"
             ELSE (pc' = "fetch") <=> (requests' < max_attempts)]_vars
    /\ (pc = "fetch") ~> (pc # "fetch")

\* C9: three requests were made and the third failed as well
FetchLoopBoundedReached ==
    /\ requests = max_attempts
    /\ last_resp = "http_error"
    /\ pc = "check"

\* C10 as stated: a relay field that contains "/" is divided at the "/": the
\* part before it, without its first character, is the country code, and the
\* part after it is the site code.
RelayDividedAtSlash ==
    (variant = "online" /\ pc = "rows") =>
        \A i \in 1..Len(outrow) :
            Contains(src_rows[i][8], "/") =>
                LET parts == Split(src_rows[i][8], "/")
                    itu == Slice(parts[1], 2, Len(parts[1]))
                    txsite == parts[2]
                IN  outrow[i][4] = Quoted(Strip(NotesFor(src_rows[i], location_dict, itu, txsite)))

\* C10: a relay field that contains "/" is divided at its hyphens: the first
\* piece, without its first character, is the country code, and the second
\* piece is the site code, which is empty when there is no hyphen.
RelayDividedAtHyphen ==
    (variant = "online" /\ pc = "rows") =>
        \A i \in 1..Len(outrow) :
            Contains(src_rows[i][8], "/") =>
                LET parts == Split(src_rows[i][8], "-")
                    itu == Slice(parts[1], 2, Len(parts[1]))
                    txsite == IF Len(parts) >= 2 THEN parts[2] ELSE <<>>
                IN  outrow[i][4] = Quoted(Strip(NotesFor(src_rows[i], location_dict, itu, txsite)))

\* C10: the relay /USA-g was looked up as country USA, site g, and found
RelayDividedAtHyphenReached ==
    /\ variant = "online"
    /\ pc = "rows"
    /\ \E i \in 1..Len(outrow) :
           /\ src_rows[i][8] = <<"/","U","S","A","-","g">>
           /\ HasLongName(location_dict, <<"U","S","A">>, <<"g">>)
           /\ outrow[i][4] = Quoted(<<"U","S","A"," ","G","r","e","e","n","v","i","l","l","e","."," ","T","a","r","g","e","t",":"," ","E","u","."," ","L","a","n","g",":"," ","-","T","S">>)

----------------------------------------------------------------------------
(* Properties of the range expansion and of the day-letter field *)

\* C11: for every start and end among the seven weekday abbreviations,
\* expand_weekday_range("start-end") returns (joined with commas) the cyclic
\* Monday-first sequence from start to end, both included: its length is
\* ((ord(end) - ord(start)) mod 7) + 1, no weekday is repeated, it is the slice
\* start..end when ord(start) <= ord(end), and start..Su followed by Mo..end
\* otherwise.
RangeExpansion ==
    LET p == Split(range_arg, "-")
    IN  (rpc \in {"returned", "raised"} /\ IsWeekday(p[1]) /\ IsWeekday(p[2])) =>
            LET s == CHOOSE i \in 1..7 : weekdays[i] = p[1]
                e == CHOOSE i \in 1..7 : weekdays[i] = p[2]
                n == ((e - s + 7) % 7) + 1
                r == Split(range_result, ",")
            IN  /\ rpc = "returned"
                /\ Len(r) = n
                /\ \A k \in 1..n : r[k] = weekdays[((s + k - 2) % 7) + 1]
                /\ r[1] = p[1] /\ r[n] = p[2]
                /\ \A j, k \in 1..n : r[j] = r[k] => j = k
                /\ s <= e => r = SubSeq(weekdays, s, e)
                /\ s > e => r = SubSeq(weekdays, s, 7) \o SubSeq(weekdays, 1, e)

\* C11: the range that wraps past Sunday was expanded
RangeExpansionReached ==
    /\ rpc = "returned"
    /\ range_arg = <<"S","a","-","T","u">>
    /\ range_result = <<"S","a",",","S","u",",","M","o",",","T","u">>

\* C12: in the CSV stage DOW is empty whenever a row is about to be read, and
\* the day-letter field of every record of outrow is either empty or a quoted
\* string of exactly 7 characters that has at position i "_" or the letter of
\* weekday i (M, T, W, T, F, S, S), with a letter at one position at least.
DayLetterFieldShape ==
    /\ pc \in {"open", "rows"} => DOW = <<>>
    /\ \A i \in 1..Len(outrow) :
           LET f == outrow[i][10]
           IN  \/ f = <<>>
               \/ /\ Len(f) = 9
                  /\ f[1] = Quote /\ f[9] = Quote
                  /\ \A k \in 1..7 : f[k + 1] \in {"_", DayLetters[k]}
                  /\ \E k \in 1..7 : f[k + 1] = DayLetters[k]

\* C12: a row without a recognised day expression and a row with a wrapping
\* range were both converted, and the next row is about to be read
DayLetterFieldShapeReached ==
    /\ pc = "rows"
    /\ DOW = <<>>
    /\ Len(outrow) = 2
    /\ \E i, j \in 1..2 :
           /\ outrow[i][10] = <<>>
           /\ outrow[j][10] = Quoted(<<"M","T","_","_","_","S","S">>)

====
